---- MODULE Spec2Model ----
(***************************************************************************)
(* A model of crypt-client: the encrypted key/value file (src/src/file.rs) *)
(* and the alias registry of the REPL (src/src/repl/mod.rs).               *)
(*                                                                         *)
(* Files are byte sequences.  The three libraries the code calls are       *)
(* modelled by their contracts, with symbolic bytes:                       *)
(*   - rand::thread_rng never repeats a value that is still stored: the    *)
(*     values drawn while a file is locked are tagged with the file's path *)
(*     and with numbers that the file does not hold (a file only holds     *)
(*     values drawn while it was locked), and the values of a file are     *)
(*     renumbered in their order of appearance after every write;          *)
(*   - argon2 (recover_key) is an injective function of its three inputs;  *)
(*   - AES-256-CBC/PKCS7 is an ideal cipher: a ciphertext block decrypts   *)
(*     to its plaintext only under the key it was made with and after the  *)
(*     block it was chained to; any other block decrypts to garbage,       *)
(*     whose last byte may or may not look like valid padding and which    *)
(*     bincode never accepts as a mapping;                                 *)
(*   - bincode2::deserialize reads a prefix and ignores trailing bytes.    *)
(***************************************************************************)
EXTENDS Integers, Sequences, FiniteSets, TLC

\* ------------------------------------------------------ program constants
IV_LEN == 16
SALT_LEN == 16
SECRET_LEN == 128
\* block size of Aes256 (type Aes256Cbc = Cbc<Aes256, Pkcs7>)
BLOCK_LEN == 16
\* bincode's fixed-width u64 length prefix
U64_LEN == 8

SALT_START == 0
SECRET_START == SALT_START + SALT_LEN
IV_START == SECRET_START + SECRET_LEN
DATA_START == IV_START + IV_LEN

\* ------------------------------------------------------------ input sets
Aliases == {"a", "b"}
Paths == {"p", "q"}
Passwords == {"pw1", "pw2"}
Keys == {"k"}
Values == {"v"}
\* the codes of the exit commands that are entered
Codes == {0, 1}

\* every modelled key and value is a one-character string
StrLen(s) == 1

\* CryptData = HashMap<String, String>
EmptyData == [k \in {} |-> "v"]
CryptData == UNION {[S -> Values] : S \in SUBSET Keys}

\* ----------------------------------------------------------------- bytes
\* A byte string (Vec<u8>, &[u8], a file's content) is a sequence of extents
\* [sym, off, len]: the bytes off+1 .. off+len of the value sym.  Adjacent
\* extents that continue one another are merged, so that two byte strings
\* are equal iff their extent sequences are.
Extent(sym, off, len) == [sym |-> sym, off |-> off, len |-> len]

Min(x, y) == IF x < y THEN x ELSE y
Max(x, y) == IF x > y THEN x ELSE y

RECURSIVE BLen(_)
\* data.len()
BLen(b) == IF b = <<>> THEN 0 ELSE Head(b).len + BLen(Tail(b))

RECURSIVE Norm(_)
Norm(b) ==
    IF b = <<>> THEN <<>>
    ELSE IF Head(b).len = 0 THEN Norm(Tail(b))
    ELSE LET rest == Norm(Tail(b)) IN
         IF /\ rest # <<>>
            /\ rest[1].sym = Head(b).sym
            /\ rest[1].off = Head(b).off + Head(b).len
         THEN <<Extent(Head(b).sym, Head(b).off, Head(b).len + rest[1].len)>>
                  \o Tail(rest)
         ELSE <<Head(b)>> \o rest

\* extend_from_slice
Cat(a, b) == Norm(a \o b)

RECURSIVE Clip(_, _, _)
Clip(b, from, to) ==
    IF b = <<>> \/ to <= 0 THEN <<>>
    ELSE LET h == Head(b)
             lo == Max(from, 0)
             hi == Min(to, h.len)
         IN  (IF lo < hi THEN <<Extent(h.sym, h.off + lo, hi - lo)>> ELSE <<>>)
                 \o Clip(Tail(b), from - h.len, to - h.len)

\* &data[from..to]: zero-based, end-exclusive
Slice(data, from, to) == Norm(Clip(data, from, to))

\* data[i], zero-based: the value the byte belongs to and its index in it
At(data, i) ==
    LET e == Clip(data, i, i + 1)[1] IN [sym |-> e.sym, idx |-> e.off]

RECURSIVE SumOver(_, _)
SumOver(S, f) ==
    IF S = {} THEN 0
    ELSE LET x == CHOOSE y \in S : TRUE IN f[x] + SumOver(S \ {x}, f)

\* ----------------------------------------------------------------- rand
\* random_bytes::<LEN>() returning the random value tagged n
random_bytes(len, n) == <<Extent([t |-> "r", n |-> n], 0, len)>>

\* -------------------------------------------------------------- bincode
SerLen(m) ==
    U64_LEN + SumOver(DOMAIN m,
        [k \in DOMAIN m |-> U64_LEN + StrLen(k) + U64_LEN + StrLen(m[k])])

\* bincode2::serialize(&self.state.data)
Serialize(m) == <<Extent([t |-> "s", m |-> m], 0, SerLen(m))>>

\* bincode2::deserialize(decrypted.as_slice())
Deserialize(bytes) ==
    IF /\ bytes # <<>>
       /\ bytes[1].sym.t = "s"
       /\ bytes[1].off = 0
       /\ bytes[1].len >= SerLen(bytes[1].sym.m)
    THEN [ok |-> TRUE, data |-> bytes[1].sym.m]
    ELSE [ok |-> FALSE, error |-> "Bincode"]

\* ----------------------------------------------------------- encryption
recover_key(password, salt, secret, kdf_fails) ==
    IF kdf_fails
    THEN [ok |-> FALSE, error |-> "Encrypt"]
    ELSE [ok |-> TRUE,
          key |-> [password |-> password, salt |-> salt, secret |-> secret]]

\* a create_key that uses one draw for the salt and for the secret
create_keyOneDraw(password, rnd, kdf_fails) ==
    LET salt == random_bytes(SALT_LEN, rnd[1])
        secret == random_bytes(SECRET_LEN, rnd[1])
        key == recover_key(password, salt, secret, kdf_fails)
    IN  IF key.ok
        THEN [ok |-> TRUE, salt |-> salt, secret |-> secret, key |-> key.key]
        ELSE key

\* a create_key that hands the secret to the hasher as the salt and the
\* salt as the secret key
create_keySwapped(password, rnd, kdf_fails) ==
    LET salt == random_bytes(SALT_LEN, rnd[1])
        secret == random_bytes(SECRET_LEN, rnd[2])
        key == recover_key(password, secret, salt, kdf_fails)
    IN  IF key.ok
        THEN [ok |-> TRUE, salt |-> salt, secret |-> secret, key |-> key.key]
        ELSE key

\* encryption::create_key(password)
create_key(password, rnd, kdf_fails) ==
    LET salt == random_bytes(SALT_LEN, rnd[1])
        secret == random_bytes(SECRET_LEN, rnd[2])
        key == recover_key(password, salt, secret, kdf_fails)
    IN  IF key.ok
        THEN [ok |-> TRUE, salt |-> salt, secret |-> secret, key |-> key.key]
        ELSE key

\* number of blocks PKCS7 pads a plaintext of that length to
NumBlocks(len) == (len \div BLOCK_LEN) + 1

\* Pkcs7 padding of the plaintext
Pad(data) ==
    LET n == NumBlocks(BLen(data)) * BLOCK_LEN - BLen(data)
    IN  Cat(data, <<Extent([t |-> "pad", n |-> n], 0, n)>>)

\* cipher.encrypt_vec(data) of the Cbc<Aes256, Pkcs7> made from key and iv
encrypt_vec(key, iv, data) ==
    <<Extent([t |-> "c", key |-> key, iv |-> iv, pt |-> data], 0,
             NumBlocks(BLen(data)) * BLOCK_LEN)>>

\* a result vector with the iv put before the secret
EnvelopeIvFirst(salt, secret, iv, encrypted) ==
    Cat(Cat(Cat(salt, iv), secret), encrypted)

\* the result vector of encrypt_slice: the four extend_from_slice calls
Envelope(salt, secret, iv, encrypted) ==
    Cat(Cat(Cat(salt, secret), iv), encrypted)

encrypt_slice(password, data, rnd, kdf_fails) ==
    LET ck == create_key(password, rnd, kdf_fails) IN
    IF ~ck.ok THEN ck
    ELSE LET iv == random_bytes(IV_LEN, rnd[3])
             encrypted == encrypt_vec(ck.key, iv, data)
         IN  [ok |-> TRUE,
              result |-> Envelope(ck.salt, ck.secret, iv, encrypted)]

\* block j (from 1) of `encrypted`
Block(encrypted, j) == Slice(encrypted, (j - 1) * BLOCK_LEN, j * BLOCK_LEN)

\* block j of `encrypted` is a whole block of some ciphertext
Intact(encrypted, j) ==
    LET blk == Block(encrypted, j) IN
    /\ Len(blk) = 1
    /\ blk[1].sym.t = "c"
    /\ blk[1].off % BLOCK_LEN = 0

\* CBC: block j decrypts to its plaintext iff it is a block of a ciphertext
\* made under this key and follows the block (or the iv) it was chained to
Genuine(key, iv, encrypted, j) ==
    LET blk == Block(encrypted, j) IN
    /\ Intact(encrypted, j)
    /\ blk[1].sym.key = key
    /\ IF blk[1].off = 0
       THEN j = 1 /\ blk[1].sym.iv = iv
       ELSE /\ j > 1
            /\ Block(encrypted, j - 1) =
                   <<Extent(blk[1].sym, blk[1].off - BLOCK_LEN, BLOCK_LEN)>>

\* what block j decrypts to
DecryptBlock(key, iv, encrypted, j) ==
    LET blk == Block(encrypted, j) IN
    IF Genuine(key, iv, encrypted, j)
    THEN Slice(Pad(blk[1].sym.pt), blk[1].off, blk[1].off + BLOCK_LEN)
    ELSE <<Extent([t |-> "g"], 0, BLOCK_LEN)>>

RECURSIVE DecryptBlocks(_, _, _, _)
\* the plaintext of the first j blocks
DecryptBlocks(key, iv, encrypted, j) ==
    IF j = 0 THEN <<>>
    ELSE Cat(DecryptBlocks(key, iv, encrypted, j - 1),
             DecryptBlock(key, iv, encrypted, j))

\* Pkcs7 unpadding of the decrypted blocks; lucky: garbage that ends like
\* a padding
Unpad(plain, lucky) ==
    LET final == At(plain, BLen(plain) - 1).sym IN
    IF final.t = "pad"
    THEN [ok |-> TRUE, data |-> Slice(plain, 0, BLen(plain) - final.n)]
    ELSE IF lucky
         THEN [ok |-> TRUE, data |-> Slice(plain, 0, BLen(plain) - 1)]
         ELSE [ok |-> FALSE, error |-> "BlockModeError"]

\* cipher.decrypt_vec(encrypted)
decrypt_vec(key, iv, encrypted, lucky) ==
    IF BLen(encrypted) = 0 \/ BLen(encrypted) % BLOCK_LEN # 0
    THEN [ok |-> FALSE, error |-> "BlockModeError"]
    ELSE Unpad(DecryptBlocks(key, iv, encrypted,
                             BLen(encrypted) \div BLOCK_LEN), lucky)

\* the outcomes of a fallible call: a panic unwinds, a failure is an Err
Panic == [ok |-> FALSE, panic |-> TRUE, error |-> "panic"]
Failure(error) == [ok |-> FALSE, panic |-> FALSE, error |-> error]

\* Ok(cipher.decrypt_vec(encrypted).unwrap())
Unwrap(dec) ==
    IF dec.ok THEN [ok |-> TRUE, panic |-> FALSE, data |-> dec.data]
    ELSE Panic

\* recover_key(..)? and the decryption under the key
DecryptUnder(key, iv, encrypted, lucky) ==
    IF ~key.ok THEN Failure(key.error)
    ELSE Unwrap(decrypt_vec(key.key, iv, encrypted, lucky))

decrypt_slice(password, data, kdf_fails, lucky) ==
    IF BLen(data) < DATA_START
    THEN Panic    \* slice index out of range
    ELSE DecryptUnder(
             recover_key(password, Slice(data, SALT_START, SECRET_START),
                         Slice(data, SECRET_START, IV_START), kdf_fails),
             Slice(data, IV_START, DATA_START),
             Slice(data, DATA_START, BLen(data)),
             lucky)

\* ----------------------------------------------------------------- state
VARIABLES
    disk,        \* the file system: path -> [exists, bytes]
    open_files,  \* Repl::open_files: alias -> (password, CryptFile<UnlockedFile>)
    pc,          \* "running", "returned" (run returned), "exited", "panicked"
    last         \* the last method call and what it returned

vars == <<disk, open_files, pc, last>>

Absent == [exists |-> FALSE, bytes |-> <<>>]
File(bytes) == [exists |-> TRUE, bytes |-> bytes]

\* HashMap::new()
EmptyMap == [a \in {} |-> 0]

Entry(password, file) == [password |-> password, file |-> file]

\* CryptFile<LockedFile> and CryptFile<UnlockedFile>
LockedCrypt(filepath) == [filepath |-> filepath, state |-> "Locked"]
UnlockedCrypt(filepath, data) ==
    [filepath |-> filepath, state |-> "Unlocked", data |-> data]

\* what HashMap::insert returns: the value the key had, if any
Replaced(map, k) == IF k \in DOMAIN map THEN <<map[k]>> ELSE <<>>

\* HashMap::insert and HashMap::remove
\* an insert that keeps the value a key already has
InsertIfVacant(map, k, v) ==
    IF k \in DOMAIN map THEN map
    ELSE [x \in DOMAIN map \cup {k} |-> IF x = k THEN v ELSE map[x]]
\* HashMap::insert
Insert(map, k, v) == [x \in DOMAIN map \cup {k} |-> IF x = k THEN v ELSE map[x]]
Remove(map, k) == [x \in DOMAIN map \ {k} |-> map[x]]

RECURSIVE RandomsOf(_)
\* the numbers of the random values a byte string holds or was made from,
\* in the order in which they appear
RandomsOf(bytes) ==
    IF bytes = <<>> THEN <<>>
    ELSE LET sym == Head(bytes).sym IN
         (IF sym.t = "r" THEN <<sym.n.k>>
          ELSE IF sym.t = "c"
          THEN <<sym.key.salt[1].sym.n.k, sym.key.secret[1].sym.n.k,
                 sym.iv[1].sym.n.k>>
          ELSE <<>>) \o RandomsOf(Tail(bytes))

\* thread_rng while the file at filepath is locked: three values that the
\* file does not hold
Fresh(d, filepath) ==
    LET used == RandomsOf(d[filepath].bytes)
        top == Max(0, CHOOSE n \in {0} \cup {used[i] : i \in DOMAIN used} :
                          \A i \in DOMAIN used : used[i] <= n)
    IN  [i \in 1..3 |-> [at |-> filepath, k |-> top + i]]

Renumber(sym, f) ==
    IF sym.t = "r" THEN [sym EXCEPT !.n.k = f[@]]
    ELSE IF sym.t = "c"
    THEN [sym EXCEPT !.key.salt[1].sym.n.k = f[@],
                     !.key.secret[1].sym.n.k = f[@],
                     !.iv[1].sym.n.k = f[@]]
    ELSE sym

\* the content of a file with its random values numbered in the order in
\* which they appear: one representative of every renaming of the values
Canon(bytes) ==
    LET seq == RandomsOf(bytes)
        first(k) == CHOOSE i \in DOMAIN seq :
                        seq[i] = k /\ \A j \in 1..(i - 1) : seq[j] # k
        f == [k \in {seq[i] : i \in DOMAIN seq} |->
                 Cardinality({seq[j] : j \in 1..(first(k) - 1)}) + 1]
    IN  [i \in DOMAIN bytes |-> [bytes[i] EXCEPT !.sym = Renumber(@, f)]]

\* ------------------------------------------------- environment's choices
\* what the environment makes fail in one lock: nothing, serialization, key
\* derivation, opening the file, or write_all after n bytes
LockFaults ==
    {[kind |-> k, n |-> 0] : k \in {"none", "serialize", "encrypt", "open"}}
        \cup {[kind |-> "write", n |-> n] : n \in {0, SALT_LEN}}
NoFault == [kind |-> "none", n |-> 0]

\* what the environment makes fail in one unlock: nothing, reading the file
\* or key derivation; lucky: a garbage block ends like a valid padding
UnlockFaults == {"none", "io", "encrypt"}

\* ------------------------------------------------------------- CryptFile
\* CryptFile::new(filepath)
new(filepath) == LockedCrypt(filepath)

\* the Ok and the Err of CryptFile<LockedFile>::unlock
UnlockOk(filepath, data) ==
    [ok |-> TRUE, panic |-> FALSE, file |-> UnlockedCrypt(filepath, data)]

\* bincode2::deserialize(decrypted.as_slice())? and the Ok that follows
Deserialized(filepath, data) ==
    IF data.ok THEN UnlockOk(filepath, data.data)
    ELSE Failure(data.error)

\* encryption::decrypt_slice(..)? and what follows
Decrypted(filepath, decrypted) ==
    IF ~decrypted.ok THEN decrypted
    ELSE Deserialized(filepath, Deserialize(decrypted.data))

\* an unlock that opens the file without asking whether it exists
unlockWithoutExists(self, password, d, fault, lucky) ==
    IF ~d[self.filepath].exists \/ fault = "io" THEN Failure("Io")
    ELSE Decrypted(self.filepath,
                   decrypt_slice(password, d[self.filepath].bytes,
                                 fault = "encrypt", lucky))

\* CryptFile<LockedFile>::unlock(self, password)
unlock(self, password, d, fault, lucky) ==
    IF ~d[self.filepath].exists
    THEN UnlockOk(self.filepath, EmptyData)
    ELSE IF fault = "io" THEN Failure("Io")
    ELSE Decrypted(self.filepath,
                   decrypt_slice(password, d[self.filepath].bytes,
                                 fault = "encrypt", lucky))

\* file.write_all(bytes) on a file opened without truncation, at offset 0
WriteAtStart(old, bytes) ==
    Cat(bytes, Slice(old, BLen(bytes), BLen(old)))

\* OpenOptions::new().write(true).create(true).open(path)
OpenForWrite(d, filepath) ==
    IF d[filepath].exists THEN d ELSE [d EXCEPT ![filepath] = File(<<>>)]

\* the Err((self, error)) results of CryptFile<UnlockedFile>::lock
\* an Err that hands back the file with its mapping emptied
LockErrEmptied(self, error, d) ==
    [ok |-> FALSE, file |-> [self EXCEPT !.data = EmptyData],
     error |-> error, disk |-> d]
\* the Err((self, error)) result: the file as it was given
LockErr(self, error, d) ==
    [ok |-> FALSE, file |-> self, error |-> error, disk |-> d]

\* an Ok that hands back the file as it was, Unlocked with its mapping
LockOkStillUnlocked(self, d) ==
    [ok |-> TRUE, file |-> self, error |-> "none", disk |-> d]

\* the Ok(CryptFile { filepath, state: LockedFile }) result
LockOk(self, d) ==
    [ok |-> TRUE, file |-> LockedCrypt(self.filepath), error |-> "none",
     disk |-> d]

lock(self, password, d, fault) ==
    IF fault.kind = "serialize" THEN LockErr(self, "Bincode", d)
    ELSE
    LET data == Serialize(self.data)
        encrypted == encrypt_slice(password, data, Fresh(d, self.filepath),
                                   fault.kind = "encrypt")
    IN
    IF ~encrypted.ok THEN LockErr(self, "Encrypt", d)
    ELSE IF fault.kind = "open" THEN LockErr(self, "Io", d)
    ELSE
    LET opened == OpenForWrite(d, self.filepath)
        old == opened[self.filepath].bytes
    IN
    IF fault.kind = "write"
    THEN LockErr(self, "Io",
             [opened EXCEPT ![self.filepath] =
                 File(Canon(WriteAtStart(old,
                                Slice(encrypted.result, 0, fault.n))))])
    ELSE LockOk(self,
             [opened EXCEPT ![self.filepath] =
                 File(Canon(WriteAtStart(old, encrypted.result)))])

\* ------------------------------------------------------------------ Repl
\* `?` on the result of unlock, and the insert that follows
Unlocked(of, alias, password, file) ==
    IF file.ok
    THEN [open_files |-> Insert(of, alias, Entry(password, file.file)),
          ret |-> [ok |-> TRUE, panic |-> FALSE, error |-> "none"],
          dropped |-> Replaced(of, alias)]
    ELSE [open_files |-> of,
          ret |-> [ok |-> FALSE, panic |-> file.panic, error |-> file.error],
          dropped |-> <<>>]

\* Repl::unlock_file(alias, filepath, password)
unlock_file(of, alias, filepath, password, d, fault, lucky) ==
    Unlocked(of, alias, password,
             unlock(new(filepath), password, d, fault, lucky))

\* what lock_file and lock_all_files return when no lock was attempted
NoLock == [ok |-> TRUE, file |-> LockedCrypt("none"), error |-> "none"]

\* the three results of Repl::lock_file
\* an absent alias reported as closed
NotFoundAsClosed(of, d) ==
    [open_files |-> of, disk |-> d, ret |-> "Ok(true)",
     error |-> "none", lock |-> NoLock]
\* Ok(false): the alias is not in open_files
NotFound(of, d) ==
    [open_files |-> of, disk |-> d, ret |-> "Ok(false)",
     error |-> "none", lock |-> NoLock]
\* Ok(true): the entry was removed and locked
Closed(of, r) ==
    [open_files |-> of, disk |-> r.disk, ret |-> "Ok(true)",
     error |-> "none", lock |-> [ok |-> TRUE, file |-> r.file, error |-> "none"]]
\* a failed close that does not put the entry back
CloseFailedForgets(of, alias, password, r) ==
    [open_files |-> of,
     disk |-> r.disk, ret |-> "Err", error |-> r.error,
     lock |-> [ok |-> FALSE, file |-> r.file, error |-> r.error]]
\* Err: the entry is reinserted under its alias
CloseFailed(of, alias, password, r) ==
    [open_files |-> Insert(of, alias, Entry(password, r.file)),
     disk |-> r.disk, ret |-> "Err", error |-> r.error,
     lock |-> [ok |-> FALSE, file |-> r.file, error |-> r.error]]

\* Repl::lock_file(alias)
lock_file(of, alias, d, fault) ==
    IF alias \notin DOMAIN of THEN NotFound(of, d)
    ELSE LET password == of[alias].password
             file == of[alias].file
             removed == Remove(of, alias)
             r == lock(file, password, d, fault)
         IN  IF r.ok THEN Closed(removed, r)
             ELSE CloseFailed(removed, alias, password, r)

RECURSIVE LockEach(_, _, _, _)
\* the closure of filter_map, applied to the entries in iteration order
LockEach(order, of, d, faults) ==
    IF order = <<>> THEN <<>>
    ELSE LET alias == Head(order) IN
         CHOOSE results \in
             {<<[alias |-> alias, password |-> of[alias].password, r |-> r]>>
                  \o LockEach(Tail(order), of, r.disk, faults) :
              r \in {lock(of[alias].file, of[alias].password, d,
                          faults[alias])}} : TRUE

\* the entries filter_map keeps: those whose lock returned Err
Failed(results) == {i \in 1..Len(results) : ~results[i].r.ok}

\* the fold: acc.0 (error_files) and acc.1 (errors)
\* a fold that keeps every entry, locked or not
ErrorFilesOfAll(results) ==
    [alias \in {results[i].alias : i \in 1..Len(results)} |->
        LET i == CHOOSE i \in 1..Len(results) : results[i].alias = alias
        IN  Entry(results[i].password, results[i].r.file)]
\* acc.0: alias -> (password, file) of the failed entries
ErrorFiles(results) ==
    [alias \in {results[i].alias : i \in Failed(results)} |->
        LET i == CHOOSE i \in Failed(results) : results[i].alias = alias
        IN  Entry(results[i].password, results[i].r.file)]
\* a report that holds only the last error
ErrorsLastOnly(results) ==
    [alias \in {results[i].alias :
                   i \in {j \in Failed(results) :
                             \A k \in Failed(results) : k <= j}} |->
        LET i == CHOOSE i \in Failed(results) : results[i].alias = alias
        IN  results[i].r.error]
\* acc.1: alias -> error of the failed entries
Errors(results) ==
    [alias \in {results[i].alias : i \in Failed(results)} |->
        LET i == CHOOSE i \in Failed(results) : results[i].alias = alias
        IN  results[i].r.error]

\* Repl::lock_all_files(); order: the iteration order of the HashMap
lock_all_files(of, d, order, faults) ==
    CHOOSE ret \in
        {LET error_files == ErrorFiles(results)
             errors == Errors(results)
         IN  [open_files |-> IF DOMAIN error_files = {} THEN EmptyMap
                             ELSE error_files,
              disk |-> IF results = <<>> THEN d
                       ELSE results[Len(results)].r.disk,
              ret |-> IF DOMAIN error_files = {} THEN "Ok" ELSE "Err",
              errors |-> errors,
              locks |-> [i \in 1..Len(results) |->
                            [alias |-> results[i].alias,
                             ok |-> results[i].r.ok,
                             file |-> results[i].r.file,
                             written |-> results[i].r.disk[
                                 results[i].r.file.filepath].bytes]]] :
         results \in {LockEach(order, of, d, faults)}} : TRUE

\* the orders in which a HashMap with these keys can be iterated
Orders(S) ==
    {o \in [1..Cardinality(S) -> S] : \A x \in S : \E i \in DOMAIN o : o[i] = x}

\* ---------------------------------------------------------------- parser
\* ReplExitCommand { code, no_save }
ReplExitCommand(code, no_save) == [code |-> code, no_save |-> no_save]

\* a line is a sequence of characters; a parser returns Ok((rest, out)) or
\* Err(Error(..))
ParseOk(rest, out) == [ok |-> TRUE, rest |-> rest, out |-> out]
ParseErr == [ok |-> FALSE]

\* the sequences over S of length at most n
SeqsUpTo(S, n) == UNION {[1..k -> S] : k \in 0..n}

\* input[from..]
Drop(input, from) == SubSeq(input, from, Len(input))

\* nom::bytes::complete::tag(t)
tag(t, input) ==
    IF Len(input) >= Len(t) /\ SubSeq(input, 1, Len(t)) = t
    THEN ParseOk(Drop(input, Len(t) + 1), t)
    ELSE ParseErr

\* fold_many0 over tuple((none_of("\\'"), opt(preceded(char('\\'), take(1))))):
\* each round takes one character that is neither a backslash nor a quote
\* and then, if a backslash and one more character follow, that character;
\* the fold ends, with what it has gathered, where a round fails
RECURSIVE parse_quoted_inner(_, _)
parse_quoted_inner(input, acc) ==
    IF input = <<>> \/ Head(input) \in {"\\", "'"}
    THEN ParseOk(input, acc)
    ELSE IF Len(input) >= 3 /\ input[2] = "\\"
         THEN parse_quoted_inner(Drop(input, 4),
                                 acc \o <<input[1], input[3]>>)
         ELSE parse_quoted_inner(Drop(input, 2), Append(acc, input[1]))

\* the closing tag("'") of delimited, after the inner parser
CloseQuote(inner) ==
    IF tag(<<"'">>, inner.rest).ok
    THEN ParseOk(tag(<<"'">>, inner.rest).rest, inner.out)
    ELSE ParseErr

\* parse_quoted_str: delimited(tag("'"), esc_or_empty, tag("'")); the first
\* branch of esc_or_empty, a fold_many0, does not fail
parse_quoted_str(input) ==
    IF tag(<<"'">>, input).ok
    THEN CloseQuote(parse_quoted_inner(tag(<<"'">>, input).rest, <<>>))
    ELSE ParseErr

\* i32::MAX
I32_MAX == 2147483647

DigitChars == <<"0", "1", "2", "3", "4", "5", "6", "7", "8", "9">>
IsDigit(c) == \E i \in DOMAIN DigitChars : DigitChars[i] = c
DigitValue(c) == (CHOOSE i \in DOMAIN DigitChars : DigitChars[i] = c) - 1

\* the length of the longest prefix of input that is made of digits
RECURSIVE DigitsLen(_)
DigitsLen(input) ==
    IF input # <<>> /\ IsDigit(Head(input))
    THEN 1 + DigitsLen(Tail(input))
    ELSE 0

\* nom::character::complete::digit1
digit1(input) ==
    IF DigitsLen(input) >= 1
    THEN ParseOk(Drop(input, DigitsLen(input) + 1),
                 SubSeq(input, 1, DigitsLen(input)))
    ELSE ParseErr

\* num_str.parse::<i32>() of a string of digits: checked multiply and add
RECURSIVE ParseInt(_, _)
ParseInt(num_str, acc) ==
    IF num_str = <<>> THEN [ok |-> TRUE, value |-> acc]
    ELSE IF acc > (I32_MAX - DigitValue(Head(num_str))) \div 10
         THEN [ok |-> FALSE]
         ELSE ParseInt(Tail(num_str), acc * 10 + DigitValue(Head(num_str)))

\* the match of parse_i32 on what digit1 has returned
I32Of(digits) ==
    IF digits.ok /\ ParseInt(digits.out, 0).ok
    THEN ParseOk(digits.rest, ParseInt(digits.out, 0).value)
    ELSE ParseErr

parse_i32(input) == I32Of(digit1(input))

WhiteSpace == {" ", "\t", "\n", "\r"}

\* the length of the longest prefix of input that is made of white space
RECURSIVE SpacesLen(_)
SpacesLen(input) ==
    IF input # <<>> /\ Head(input) \in WhiteSpace
    THEN 1 + SpacesLen(Tail(input))
    ELSE 0

\* a parser of exactly one space character
one_space(input) ==
    IF input # <<>> /\ Head(input) = " "
    THEN ParseOk(Tail(input), <<" ">>)
    ELSE ParseErr

\* nom::character::complete::multispace1
multispace1(input) ==
    IF SpacesLen(input) >= 1
    THEN ParseOk(Drop(input, SpacesLen(input) + 1),
                 SubSeq(input, 1, SpacesLen(input)))
    ELSE ParseErr

NoSaveTag == <<"-", "-", "n", "o", "-", "s", "a", "v", "e">>

\* preceded(multispace1, value(true, tag("--no-save"))), after the white space
NoSaveFlag(spaces) ==
    IF spaces.ok THEN tag(NoSaveTag, spaces.rest) ELSE ParseErr

\* map(tuple((parse_i32, opt(..))), |(code, force)| ReplExitCommand {..}),
\* after parse_i32: opt gives None, and consumes nothing, where the flag
\* parser fails
ExitCommandOf(code, flag) ==
    IF ~code.ok THEN ParseErr
    ELSE IF flag.ok
         THEN ParseOk(flag.rest, ReplExitCommand(code.out, TRUE))
         ELSE ParseOk(code.rest, ReplExitCommand(code.out, FALSE))

parse_exit_command(input) ==
    ExitCommandOf(parse_i32(input),
                  IF parse_i32(input).ok
                  THEN NoSaveFlag(multispace1(parse_i32(input).rest))
                  ELSE ParseErr)

\* the length of the longest prefix of input that has no space
RECURSIVE TillSpaceLen(_)
TillSpaceLen(input) ==
    IF input # <<>> /\ Head(input) # " "
    THEN 1 + TillSpaceLen(Tail(input))
    ELSE 0

\* parse_unquoted_str: take_till(|c| c == ' '), which does not fail
parse_unquoted_str(input) ==
    ParseOk(Drop(input, TillSpaceLen(input) + 1),
            SubSeq(input, 1, TillSpaceLen(input)))

\* alt((a, b)): b where a has failed
Alt(a, b) == IF a.ok THEN a ELSE b

\* parse_str: alt((parse_quoted_str, map(parse_unquoted_str, ..)))
parse_str(input) == Alt(parse_quoted_str(input), parse_unquoted_str(input))

\* multispace1 applied after a parser
AfterSpace(r) == IF r.ok THEN multispace1(r.rest) ELSE ParseErr

\* parse_str applied after a parser
StrAfter(r) == IF r.ok THEN parse_str(r.rest) ELSE ParseErr

\* a keyword and the white space after it
Keyword(word, input) == AfterSpace(tag(word, input))

\* map(p, f) for a parser result
MapOut(r, out) == IF r.ok THEN ParseOk(r.rest, out) ELSE ParseErr

\* separated_pair(parse_str, multispace1, parse_str) after a parser: the
\* second string, the first being StrAfter(r)
SecondStr(r) == StrAfter(AfterSpace(StrAfter(r)))

\* the keywords of the command grammar
Word ==
    [list |-> <<"l", "i", "s", "t">>,
     get |-> <<"g", "e", "t">>,
     set |-> <<"s", "e", "t">>,
     delete |-> <<"d", "e", "l", "e", "t", "e">>,
     unlock |-> <<"u", "n", "l", "o", "c", "k">>,
     lock |-> <<"l", "o", "c", "k">>,
     data |-> <<"d", "a", "t", "a">>,
     clear |-> <<"c", "l", "e", "a", "r">>,
     help |-> <<"h", "e", "l", "p">>,
     exit |-> <<"e", "x", "i", "t">>,
     crypt |-> <<"c", "r", "y", "p", "t">>]

\* the Get, Set and Delete arms of parse_map_command
MapKey(key, cmd) ==
    IF key.ok THEN MapOut(key, [cmd |-> cmd, key |-> key.out]) ELSE ParseErr
MapSet(key, value) ==
    IF key.ok /\ value.ok
    THEN MapOut(value, [cmd |-> "Set", key |-> key.out, value |-> value.out])
    ELSE ParseErr

parse_map_command(input) ==
    Alt(MapOut(tag(Word.list, input), [cmd |-> "List"]),
    Alt(MapKey(StrAfter(Keyword(Word.get, input)), "Get"),
    Alt(MapSet(StrAfter(Keyword(Word.set, input)),
               SecondStr(Keyword(Word.set, input))),
        MapKey(StrAfter(Keyword(Word.delete, input)), "Delete"))))

\* the Unlock, Lock and Data arms of parse_crypt_command
CryptUnlockOf(alias, filepath) ==
    IF alias.ok /\ filepath.ok
    THEN MapOut(filepath, [cmd |-> "Unlock", alias |-> alias.out,
                           filepath |-> filepath.out])
    ELSE ParseErr
CryptLockOf(alias) ==
    IF alias.ok THEN MapOut(alias, [cmd |-> "Lock", alias |-> alias.out])
    ELSE ParseErr
MapCommandAfter(r) == IF r.ok THEN parse_map_command(r.rest) ELSE ParseErr
CryptDataOf(alias, cmd) ==
    IF alias.ok /\ cmd.ok
    THEN MapOut(cmd, [cmd |-> "Data", alias |-> alias.out, data |-> cmd.out])
    ELSE ParseErr

parse_crypt_command(input) ==
    Alt(MapOut(tag(Word.list, input), [cmd |-> "List"]),
    Alt(CryptUnlockOf(StrAfter(Keyword(Word.unlock, input)),
                      SecondStr(Keyword(Word.unlock, input))),
    Alt(CryptLockOf(StrAfter(Keyword(Word.lock, input))),
        CryptDataOf(StrAfter(Keyword(Word.data, input)),
                    MapCommandAfter(
                        AfterSpace(StrAfter(Keyword(Word.data, input))))))))

\* the Exit and Crypt arms of parse_command
ExitAfter(r) == IF r.ok THEN parse_exit_command(r.rest) ELSE ParseErr
CryptAfter(r) == IF r.ok THEN parse_crypt_command(r.rest) ELSE ParseErr
Wrapped(r, kind) ==
    IF r.ok THEN MapOut(r, [cmd |-> kind, of |-> r.out]) ELSE ParseErr

parse_command(input) ==
    Alt(MapOut(tag(Word.clear, input), [cmd |-> "ClearScreen"]),
    Alt(MapOut(tag(Word.help, input), [cmd |-> "Help"]),
    Alt(Wrapped(ExitAfter(Keyword(Word.exit, input)), "Exit"),
        Wrapped(CryptAfter(Keyword(Word.crypt, input)), "Crypt"))))

\* ReplCommand::try_from(s): the command, whatever input is left
try_from(s) ==
    IF parse_command(s).ok
    THEN [ok |-> TRUE, command |-> parse_command(s).out]
    ELSE [ok |-> FALSE]

\* lines typed that are not the commands of the other actions: an empty
\* line, `exit -1`, `crypt lock` without an alias, and `help`
Lines ==
    {<<>>,
     Word.exit \o <<" ", "-", "1">>,
     Word.crypt \o <<" ">> \o Word.lock,
     Word.help}

\* --------------------------------------------------------------- actions
Init ==
    /\ disk = [p \in Paths |-> Absent]
    /\ open_files = EmptyMap
    /\ pc = "running"
    /\ last = [op |-> "new"]

\* an unlock command that creates the file where the path has none
CryptUnlockCreates(alias, filepath, password, fault, lucky) ==
    /\ pc = "running"
    /\ (fault # "none" \/ lucky) => disk[filepath].exists
    /\ fault # "none" => ~lucky
    /\ \E r \in {unlock_file(open_files, alias, filepath, password, disk,
                               fault, lucky)} :
           /\ open_files' = IF r.ret.panic THEN EmptyMap ELSE r.open_files
           /\ pc' = IF r.ret.panic THEN "panicked" ELSE "running"
           /\ last' = [op |-> "unlock_file", alias |-> alias,
                       filepath |-> filepath, password |-> password,
                       ret |-> r.ret, dropped |-> r.dropped]
    /\ disk' = IF disk[filepath].exists
               THEN disk
               ELSE [disk EXCEPT ![filepath] = File(<<>>)]

\* tick with the line `crypt unlock <alias> <filepath>` and the password typed
CryptUnlock(alias, filepath, password, fault, lucky) ==
    /\ pc = "running"
    /\ (fault # "none" \/ lucky) => disk[filepath].exists
    /\ fault # "none" => ~lucky
    /\ \E r \in {unlock_file(open_files, alias, filepath, password, disk,
                               fault, lucky)} :
           /\ open_files' = IF r.ret.panic THEN EmptyMap ELSE r.open_files
           /\ pc' = IF r.ret.panic THEN "panicked" ELSE "running"
           /\ last' = [op |-> "unlock_file", alias |-> alias,
                       filepath |-> filepath, password |-> password,
                       ret |-> r.ret, dropped |-> r.dropped]
    /\ UNCHANGED disk

\* tick with the line `crypt lock <alias>`
CryptLock(alias, fault) ==
    /\ pc = "running"
    /\ alias \notin DOMAIN open_files => fault = NoFault
    /\ \E r \in {lock_file(open_files, alias, disk, fault)} :
           /\ open_files' = r.open_files
           /\ disk' = r.disk
           /\ last' = [op |-> "lock_file", alias |-> alias,
                       ret |-> r.ret, error |-> r.error, lock |-> r.lock]
    /\ pc' = pc

\* a set that puts the entry into the mapping of every open file
DataSetAll(alias, key, value) ==
    /\ pc = "running"
    /\ open_files' =
           IF alias \in DOMAIN open_files
           THEN [a \in DOMAIN open_files |->
                    [open_files[a] EXCEPT !.file.data = Insert(@, key, value)]]
           ELSE open_files
    /\ last' = [op |-> "set", alias |-> alias]
    /\ UNCHANGED <<disk, pc>>

\* tick with the line `crypt data <alias> set <key> <value>`
DataSet(alias, key, value) ==
    /\ pc = "running"
    /\ open_files' =
           IF alias \in DOMAIN open_files
           THEN [open_files EXCEPT ![alias].file.data = Insert(@, key, value)]
           ELSE open_files
    /\ last' = [op |-> "set", alias |-> alias]
    /\ UNCHANGED <<disk, pc>>

\* tick with the line `crypt data <alias> list`: the entries are printed
DataList(alias) ==
    /\ pc = "running"
    /\ last' = [op |-> "list", alias |-> alias]
    /\ UNCHANGED <<open_files, disk, pc>>

\* tick with the line `crypt data <alias> get <key>`: the value is printed
DataGet(alias, key) ==
    /\ pc = "running"
    /\ last' = [op |-> "get", alias |-> alias]
    /\ UNCHANGED <<open_files, disk, pc>>

\* tick with the line `crypt data <alias> delete <key>`
DataDelete(alias, key) ==
    /\ pc = "running"
    /\ open_files' =
           IF alias \in DOMAIN open_files
           THEN [open_files EXCEPT ![alias].file.data = Remove(@, key)]
           ELSE open_files
    /\ last' = [op |-> "delete", alias |-> alias]
    /\ UNCHANGED <<disk, pc>>

\* an exit that never locks the open files
ExitNeverSaves(code, no_save, order, faults) ==
    /\ pc = "running"
    /\ last' = [op |-> "exit", exit |-> ReplExitCommand(code, no_save)]
    /\ UNCHANGED <<open_files, disk>>
    /\ pc' = "returned"

\* tick with the line `exit <code>` or `exit <code> --no-save`: the Exit arm
\* of execute_command, with the report of lock_all_files handed to
\* driver.eprint, then tick returns Some(exit) and run returns it
Exit(code, no_save, order, faults) ==
    /\ pc = "running"
    /\ IF ~no_save /\ DOMAIN open_files # {}
       THEN \E r \in {lock_all_files(open_files, disk, order, faults)} :
                /\ open_files' = r.open_files
                /\ disk' = r.disk
                /\ last' = [op |-> "lock_all_files", order |-> order,
                            ret |-> r.ret, errors |-> r.errors,
                            locks |-> r.locks,
                            exit |-> ReplExitCommand(code, no_save)]
       ELSE /\ last' = [op |-> "exit",
                        exit |-> ReplExitCommand(code, no_save)]
            /\ UNCHANGED <<open_files, disk>>
    /\ pc' = "returned"

\* an invalid line after which tick returns the error and the loop stops
InvalidCommandStops(line) ==
    /\ pc = "running"
    /\ ~try_from(line).ok
    /\ pc' = "error"
    /\ last' = [op |-> "invalid", line |-> line, eprint |-> "Invalid command"]
    /\ UNCHANGED <<open_files, disk>>

\* tick with a line that is no command: the error is printed, tick returns
\* None
InvalidCommand(line) ==
    /\ pc = "running"
    /\ ~try_from(line).ok
    /\ last' = [op |-> "invalid", line |-> line, eprint |-> "Invalid command"]
    /\ UNCHANGED <<open_files, disk, pc>>

\* tick when driver.prompt_line fails: tick and run return the error
PromptLineError ==
    /\ pc = "running"
    /\ pc' = "error"
    /\ last' = [op |-> "prompt_line"]
    /\ UNCHANGED <<open_files, disk>>

\* a failed password prompt that is not returned: the loop goes on
PromptPasswordErrorIgnored ==
    /\ pc = "running"
    /\ last' = [op |-> "prompt_password"]
    /\ UNCHANGED <<open_files, disk, pc>>

\* tick with the line `crypt unlock <alias> <filepath>` when
\* driver.prompt_password fails: execute_command, tick and run return the
\* error, unlock_file is not called
PromptPasswordError ==
    /\ pc = "running"
    /\ pc' = "error"
    /\ last' = [op |-> "prompt_password"]
    /\ UNCHANGED <<open_files, disk>>

\* run_loop: std::process::exit(code) once run has returned
ProcessExit ==
    /\ pc = "returned"
    /\ pc' = "exited"
    /\ open_files' = EmptyMap
    /\ last' = [op |-> "process::exit", code |-> last.exit.code]
    /\ UNCHANGED disk

\* one step of the session: the commands over the given aliases, paths and
\* passwords, with the given failures of the environment
NextOver(aliases, paths, passwords, lock_faults, unlock_faults) ==
    \/ \E alias \in aliases, filepath \in paths, password \in passwords,
          fault \in unlock_faults, lucky \in BOOLEAN :
              CryptUnlock(alias, filepath, password, fault, lucky)
    \/ \E alias \in aliases, fault \in lock_faults : CryptLock(alias, fault)
    \/ \E alias \in aliases, key \in Keys, value \in Values :
              DataSet(alias, key, value)
    \/ \E alias \in aliases, key \in Keys : DataDelete(alias, key)
    \/ \E alias \in aliases : DataList(alias)
    \/ \E alias \in aliases, key \in Keys : DataGet(alias, key)
    \/ \E code \in Codes, no_save \in BOOLEAN :
          IF ~no_save /\ DOMAIN open_files # {}
          THEN \E order \in Orders(DOMAIN open_files),
                  faults \in [DOMAIN open_files -> lock_faults] :
                      Exit(code, no_save, order, faults)
          ELSE Exit(code, no_save, <<>>, EmptyMap)
    \/ \E line \in Lines : InvalidCommand(line)
    \/ PromptLineError
    \/ PromptPasswordError
    \/ ProcessExit

\* lock failures that leave the disk alone
QuietFaults == {f \in LockFaults : f.kind \in {"none", "open"}}

\* the session over two aliases and two paths, with one password
Next == NextOver(Aliases, Paths, {"pw1"}, QuietFaults, UnlockFaults)
Spec == Init /\ [][Next]_vars

\* the session over two aliases on one path, with two passwords
NextPw == NextOver(Aliases, {"p"}, Passwords, QuietFaults, UnlockFaults)
SpecPw == Init /\ [][NextPw]_vars

\* one alias on one path, with two passwords and every failure
NextFile == NextOver({"a"}, {"p"}, Passwords, LockFaults, UnlockFaults)
SpecFile == Init /\ [][NextFile]_vars

\* --------------------------------------------------------- parser inputs
\* the longest line, in characters, given to parse_quoted_str
MaxLen == 6
\* the largest of the small exit codes, and the most white space after a code
MaxCode == 12
MaxSpaces == 2

QuoteChars == {"'", "\\", "a"}
QuotedInputs == SeqsUpTo(QuoteChars, MaxLen)

\* the decimal digits of a number
RECURSIVE Decimal(_)
Decimal(n) ==
    IF n < 10 THEN <<DigitChars[n + 1]>>
    ELSE Append(Decimal(n \div 10), DigitChars[(n % 10) + 1])

\* the digits of i32::MAX + 1
TooBig == Append(SubSeq(Decimal(I32_MAX), 1, 9), "8")

ExitCodes == 0..MaxCode \cup {I32_MAX}
Zeros == {<<>>, <<"0">>}
Spaces == SeqsUpTo({" ", "\t"}, MaxSpaces)
ExitInputs ==
    {z \o d \o w \o t :
        z \in Zeros,
        d \in {Decimal(n) : n \in ExitCodes} \cup {TooBig, <<>>},
        w \in Spaces,
        t \in {<<>>, NoSaveTag, SubSeq(NoSaveTag, 1, 8), <<"x">>}}

\* a content written between single quotes, every quote of it after a
\* backslash
RECURSIVE Escaped(_)
Escaped(content) ==
    IF content = <<>> THEN <<>>
    ELSE (IF Head(content) = "'" THEN <<"\\", "'">> ELSE <<Head(content)>>)
             \o Escaped(Tail(content))

Quoted(content) == <<"'">> \o Escaped(content) \o <<"'">>

\* words put together with one space between them
RECURSIVE Joined(_)
Joined(words) ==
    IF Len(words) = 1 THEN words[1]
    ELSE words[1] \o <<" ">> \o Joined(Tail(words))

\* command lines: those of Lines, and one for each command
CommandInputs ==
    Lines \cup
    {Word.clear,
     Joined(<<Word.exit, Decimal(MaxCode)>>),
     Joined(<<Word.exit, <<"0">>, NoSaveTag>>),
     Joined(<<Word.crypt, Word.list>>),
     Joined(<<Word.crypt, Word.unlock, <<"a">>, <<"p">>>>),
     Joined(<<Word.crypt, Word.lock, <<"a">>>>),
     Joined(<<Word.crypt, Word.data, <<"a">>, Word.list>>),
     Joined(<<Word.crypt, Word.data, <<"a">>, Word.get, <<"k">>>>),
     Joined(<<Word.crypt, Word.data, <<"a">>, Word.set, <<"k">>,
              Quoted(<<"v", " ", "v">>)>>),
     Joined(<<Word.crypt, Word.data, <<"a">>, Word.delete, <<"k">>>>),
     Joined(<<Word.crypt, Word.unlock, <<"a">>>>),
     Joined(<<Word.crypt, Word.data, <<"a">>, Word.set, <<"k">>>>)}

\* a line to parse
InitParse ==
    /\ disk = [p \in Paths |-> Absent]
    /\ open_files = EmptyMap
    /\ pc = "running"
    /\ last \in {[op |-> "input", input |-> input] :
                    input \in QuotedInputs \cup ExitInputs \cup CommandInputs}

ParseQuotedStr ==
    /\ last.op = "input"
    /\ last' = [op |-> "parse_quoted_str", input |-> last.input,
                result |-> parse_quoted_str(last.input)]
    /\ UNCHANGED <<open_files, disk, pc>>

ParseI32 ==
    /\ last.op = "input"
    /\ last' = [op |-> "parse_i32", input |-> last.input,
                result |-> parse_i32(last.input)]
    /\ UNCHANGED <<open_files, disk, pc>>

ParseExitCommand ==
    /\ last.op = "input"
    /\ last' = [op |-> "parse_exit_command", input |-> last.input,
                result |-> parse_exit_command(last.input)]
    /\ UNCHANGED <<open_files, disk, pc>>

ParseCommand ==
    /\ last.op = "input"
    /\ last' = [op |-> "try_from", input |-> last.input,
                result |-> try_from(last.input)]
    /\ UNCHANGED <<open_files, disk, pc>>

NextParse ==
    \/ ParseQuotedStr
    \/ ParseI32
    \/ ParseExitCommand
    \/ ParseCommand

\* the parsers applied to a line
SpecParse == InitParse /\ [][NextParse]_vars

\* ---------------------------------------------------------------- claims
\* the length of the envelope of a mapping
EnvelopeLen(data) == DATA_START + NumBlocks(SerLen(data)) * BLOCK_LEN

\* bytes is an envelope that password opens to data and nothing else
IsEnvelopeOf(bytes, password, data) ==
    /\ BLen(bytes) = EnvelopeLen(data)
    /\ \E dec \in {decrypt_slice(password, bytes, FALSE, FALSE)} :
          dec.ok /\ Deserialize(dec.data) = [ok |-> TRUE, data |-> data]

\* the entries a lock_all_files call locked, by outcome
LockedBy(log, ok) == {log[i].alias : i \in {j \in DOMAIN log : log[j].ok = ok}}

\* C1: whenever lock fails, at whatever step, it returns an error together
\* with an Unlocked file that has the path and the mapping it was called on;
\* it returns a Locked file only on success.
C1_FailedLockReturnsOriginal ==
    [][/\ \A alias \in DOMAIN open_files :
            (last'.op = "lock_file" /\ last'.alias = alias) =>
                IF last'.lock.ok
                THEN last'.lock.file = LockedCrypt(open_files[alias].file.filepath)
                ELSE /\ last'.lock.file = open_files[alias].file
                     /\ last'.lock.file.state = "Unlocked"
                     /\ last'.lock.error \in {"Bincode", "Encrypt", "Io"}
       /\ last'.op = "lock_all_files" =>
            \A i \in DOMAIN last'.locks :
                ~last'.locks[i].ok =>
                    last'.locks[i].file = open_files[last'.locks[i].alias].file
      ]_vars

\* C1 witness: a lock of a file with a non-empty mapping has failed after
\* the file was opened for writing
C1_Witness ==
    /\ last.op = "lock_file"
    /\ ~last.lock.ok
    /\ last.lock.error = "Io"
    /\ last.lock.file.data # EmptyData
    /\ disk[last.lock.file.filepath].exists

\* C2: after a successful lock of a file holding M with P, unlock of the
\* same path with P yields an Unlocked file whose mapping is M.
C2_RoundTrip ==
    [][\A alias \in DOMAIN open_files :
          (last'.op = "lock_file" /\ last'.alias = alias /\ last'.lock.ok) =>
              \A lucky \in BOOLEAN :
                  unlock(new(open_files[alias].file.filepath),
                         open_files[alias].password, disk', "none", lucky)
                      = UnlockOk(open_files[alias].file.filepath,
                                 open_files[alias].file.data)
      ]_vars

\* the file at filepath is an envelope made with password
LockedUnder(d, filepath, password) ==
    /\ d[filepath].exists
    /\ \E data \in CryptData :
          IsEnvelopeOf(d[filepath].bytes, password, data)

\* C3: unlock with a password other than the one the file was locked under
\* returns the error value WrongPasswordOrCorrupt to the caller: it neither
\* returns an Unlocked file nor unwinds with a panic.
C3_WrongPasswordIsAnError ==
    [][last'.op = "unlock_file" =>
          \A p1 \in Passwords \ {last'.password} :
              LockedUnder(disk, last'.filepath, p1) =>
                  /\ ~last'.ret.ok
                  /\ ~last'.ret.panic
                  /\ last'.ret.error = "WrongPasswordOrCorrupt"
      ]_vars

\* C4: after lock_all_files the registry holds exactly the entries whose
\* lock failed, each as it was; every entry whose lock succeeded is gone and
\* its envelope was written at the start of the file at its path.
C4_CloseAllKeepsExactlyTheFailed ==
    [][last'.op = "lock_all_files" =>
          LET failed == LockedBy(last'.locks, FALSE) IN
          /\ {last'.locks[i].alias : i \in DOMAIN last'.locks}
                 = DOMAIN open_files
          /\ DOMAIN open_files' = failed
          /\ \A a \in failed : open_files'[a] = open_files[a]
          /\ \A i \in DOMAIN last'.locks :
                LET a == last'.locks[i].alias IN
                last'.locks[i].ok =>
                    /\ a \notin DOMAIN open_files'
                    /\ disk'[open_files[a].file.filepath].exists
                    /\ IsEnvelopeOf(
                           Slice(last'.locks[i].written, 0,
                                 EnvelopeLen(open_files[a].file.data)),
                           open_files[a].password,
                           open_files[a].file.data)
      ]_vars

\* C4 witness: of two entries one was locked and one, with a non-empty
\* mapping, failed and is still in the registry
C4_Witness ==
    /\ last.op = "lock_all_files"
    /\ Cardinality(LockedBy(last.locks, TRUE)) = 1
    /\ \E a \in LockedBy(last.locks, FALSE) :
          a \in DOMAIN open_files /\ open_files[a].file.data # EmptyData

\* C5: lock_all_files returns Ok iff no lock failed; otherwise the aliases of
\* the error report are exactly those whose lock failed, which are exactly
\* those left in the registry.
C5_CloseAllReportsExactlyTheFailed ==
    [][last'.op = "lock_all_files" =>
          LET failed == LockedBy(last'.locks, FALSE) IN
          /\ last'.ret = "Ok" <=> failed = {}
          /\ last'.ret \in {"Ok", "Err"}
          /\ last'.ret = "Err" =>
                /\ DOMAIN last'.errors = failed
                /\ DOMAIN open_files' = failed
                /\ \A a \in failed : last'.errors[a] \in {"Bincode", "Encrypt", "Io"}
      ]_vars

\* C5 witness: both entries of the registry failed to lock and are reported
C5_Witness ==
    /\ last.op = "lock_all_files"
    /\ last.ret = "Err"
    /\ Cardinality(DOMAIN last.errors) = 2
    /\ DOMAIN open_files = DOMAIN last.errors

\* C6: when lock_file's lock fails the entry is back under its alias with
\* its password and mapping, the error is returned, and no other entry has
\* changed.
C6_FailedCloseReinserts ==
    [][(last'.op = "lock_file" /\ ~last'.lock.ok) =>
          /\ last'.alias \in DOMAIN open_files
          /\ open_files' = open_files
          /\ last'.ret = "Err"
          /\ last'.error \in {"Bincode", "Encrypt", "Io"}
      ]_vars

\* C6 witness: a failed lock_file of an entry with a non-empty mapping,
\* while another alias is open
C6_Witness ==
    /\ last.op = "lock_file"
    /\ last.ret = "Err"
    /\ last.alias \in DOMAIN open_files
    /\ open_files[last.alias].file.data # EmptyData
    /\ DOMAIN open_files # {last.alias}

\* C7: when lock_file's lock succeeds the alias is gone, the file at the
\* entry's path exists and holds the envelope of the entry's mapping, no
\* other entry has changed and the result is Ok(true).
C7_CloseRemovesAndPersists ==
    [][\A alias \in DOMAIN open_files :
          (last'.op = "lock_file" /\ last'.alias = alias /\ last'.lock.ok) =>
              /\ alias \notin DOMAIN open_files'
              /\ \A other \in DOMAIN open_files \ {alias} :
                    /\ other \in DOMAIN open_files'
                    /\ open_files'[other] = open_files[other]
              /\ last'.ret = "Ok(true)"
              /\ disk'[open_files[alias].file.filepath].exists
              /\ IsEnvelopeOf(disk'[open_files[alias].file.filepath].bytes,
                              open_files[alias].password,
                              open_files[alias].file.data)
      ]_vars

\* C8: lock_file returns Ok(false) iff the alias is not in the registry, and
\* then changes neither the registry nor the disk; Ok(true) and Err are the
\* results of a lock that succeeded and of one that failed.
C8_NotFoundIffAbsent ==
    [][last'.op = "lock_file" =>
          /\ last'.ret = "Ok(false)" <=> last'.alias \notin DOMAIN open_files
          /\ last'.ret = "Ok(false)" =>
                open_files' = open_files /\ disk' = disk
          /\ last'.ret = "Ok(true)" <=>
                (last'.alias \in DOMAIN open_files
                    /\ last'.alias \notin DOMAIN open_files')
          /\ last'.ret = "Err" <=>
                (last'.alias \in DOMAIN open_files /\ last'.error # "none")
          /\ last'.ret \in {"Ok(false)", "Ok(true)", "Err"}
      ]_vars

\* C8 witness: lock_file of an alias that is not open, while another is
C8_Witness ==
    /\ last.op = "lock_file"
    /\ last.ret = "Ok(false)"
    /\ last.alias \notin DOMAIN open_files
    /\ DOMAIN open_files # {}

\* C9: when unlock fails, unlock_file returns the error to its caller and
\* the registry is as it was before the call.
C9_FailedOpenPropagates ==
    [][(last'.op = "unlock_file" /\ ~last'.ret.ok) =>
          /\ ~last'.ret.panic
          /\ last'.ret.error \in {"Bincode", "Encrypt", "Io"}
          /\ open_files' = open_files
      ]_vars

\* what is read from the file at filepath with password, when it is read
Readable(d, filepath, password) ==
    {r.file : r \in {u \in {unlock(new(filepath), password, d, "none", lucky) :
                               lucky \in BOOLEAN} : u.ok}}

\* C10: a successful unlock_file on a bound alias replaces the binding: the
\* alias maps to the newly unlocked file and the given password, the other
\* aliases are as they were, and the mapping the alias had is dropped
\* without a write to the disk.
C10_ReopenReplaces ==
    [][\A alias \in DOMAIN open_files :
          (last'.op = "unlock_file" /\ last'.alias = alias /\ last'.ret.ok) =>
              /\ DOMAIN open_files' = DOMAIN open_files
              /\ open_files'[alias].password = last'.password
              /\ open_files'[alias].file
                     \in Readable(disk, last'.filepath, last'.password)
              /\ open_files'[alias].file.state = "Unlocked"
              /\ \A other \in DOMAIN open_files \ {alias} :
                    open_files'[other] = open_files[other]
              /\ last'.dropped = <<open_files[alias]>>
              /\ disk' = disk
      ]_vars

\* C10 witness: an alias was reopened with another password on a file that
\* holds a mapping other than the one the alias had
C10_Witness ==
    /\ last.op = "unlock_file"
    /\ last.ret.ok
    /\ last.dropped # <<>>
    /\ last.dropped[1].password # open_files[last.alias].password
    /\ last.dropped[1].file.data # open_files[last.alias].file.data

\* the aliases whose entry the last operation has saved to its file
Saved(l) ==
    IF l.op = "lock_all_files" THEN LockedBy(l.locks, TRUE) ELSE {}

\* the last operation has failed: an unlock_file that returned no file, a
\* lock_file that returned Err, a lock_all_files with an error report
HasFailed(l) ==
    \/ l.op = "unlock_file" /\ ~l.ret.ok
    \/ l.op = "lock_file" /\ l.ret = "Err"
    \/ l.op = "lock_all_files" /\ l.ret = "Err"

\* C11: whenever unlock_file, lock_file or lock_all_files fails, every entry
\* the registry held before the operation, other than those the operation
\* has saved, is still held afterwards under its alias, unchanged.
C11_FailureKeepsEveryMapping ==
    [][HasFailed(last') =>
          \A alias \in DOMAIN open_files \ Saved(last') :
              /\ alias \in DOMAIN open_files'
              /\ open_files'[alias] = open_files[alias]
      ]_vars

\* C12: unlock of a path at which no file exists succeeds, whatever the
\* password, with an Unlocked file of that path whose mapping is empty, and
\* creates no file.
C12_FirstOpenSucceedsEmpty ==
    [][(last'.op = "unlock_file" /\ ~disk[last'.filepath].exists) =>
          /\ last'.ret.ok
          /\ ~last'.ret.panic
          /\ last'.alias \in DOMAIN open_files'
          /\ open_files'[last'.alias] =
                 Entry(last'.password,
                       UnlockedCrypt(last'.filepath, EmptyData))
          /\ disk' = disk
      ]_vars

\* C12 witness: the same absent path has been opened under two aliases with
\* two passwords
C12_Witness ==
    /\ last.op = "unlock_file"
    /\ last.ret.ok
    /\ ~disk[last.filepath].exists
    /\ open_files[last.alias].file.data = EmptyData
    /\ \E other \in DOMAIN open_files \ {last.alias} :
          /\ open_files[other].file.filepath = last.filepath
          /\ open_files[other].password # last.password

\* C13: after a successful lock, by lock_file or by lock_all_files, the file
\* at the path holds exactly the envelope of the locked mapping under the
\* entry's password, whatever the file held before.
C13_LockWritesExactlyTheEnvelope ==
    [][/\ \A alias \in DOMAIN open_files :
            (last'.op = "lock_file" /\ last'.alias = alias
                 /\ last'.lock.ok) =>
                IsEnvelopeOf(disk'[open_files[alias].file.filepath].bytes,
                             open_files[alias].password,
                             open_files[alias].file.data)
       /\ last'.op = "lock_all_files" =>
            \A i \in DOMAIN last'.locks :
                last'.locks[i].ok =>
                    IsEnvelopeOf(last'.locks[i].written,
                                 open_files[last'.locks[i].alias].password,
                                 open_files[last'.locks[i].alias].file.data)
      ]_vars

\* C14: after a lock attempt the disk is as it was before the attempt when
\* the lock has failed, and the file at the path holds the complete new
\* envelope and nothing else when it has succeeded.
C14_LockIsAtomic ==
    [][\A alias \in DOMAIN open_files :
          (last'.op = "lock_file" /\ last'.alias = alias) =>
              IF last'.lock.ok
              THEN /\ \A p \in DOMAIN disk \ {open_files[alias].file.filepath} :
                         disk'[p] = disk[p]
                   /\ IsEnvelopeOf(
                          disk'[open_files[alias].file.filepath].bytes,
                          open_files[alias].password,
                          open_files[alias].file.data)
              ELSE disk' = disk
      ]_vars

\* the envelope lock builds for an entry of the registry
NewEnvelope(entry, d) ==
    encrypt_slice(entry.password, Serialize(entry.file.data),
                  Fresh(d, entry.file.filepath), FALSE).result

\* the random values a byte string holds or was made from
RandomSet(bytes) ==
    LET seq == RandomsOf(bytes) IN {seq[i] : i \in DOMAIN seq}

\* C15: the envelope a successful lock writes has a salt, a secret and an iv
\* that are three different draws of the random source, none of them a value
\* the file at the path held, so the envelope differs from the one the file
\* held even when mapping and password are the same.
C15_LockDrawsFreshValues ==
    [][\A alias \in DOMAIN open_files :
          (last'.op = "lock_file" /\ last'.alias = alias /\ last'.lock.ok) =>
              \E env \in {NewEnvelope(open_files[alias], disk)} :
                  LET old == disk[open_files[alias].file.filepath].bytes
                      written == disk'[open_files[alias].file.filepath].bytes
                      salt == Slice(env, SALT_START, SECRET_START)
                      secret == Slice(env, SECRET_START, IV_START)
                      iv == Slice(env, IV_START, DATA_START)
                  IN  /\ Slice(written, 0, BLen(env)) = Canon(env)
                      /\ \A f \in {salt, secret, iv} :
                            /\ Len(f) = 1
                            /\ f[1].sym.t = "r"
                            /\ f[1].sym.n.k \notin RandomSet(old)
                      /\ Cardinality({salt[1].sym.n, secret[1].sym.n,
                                      iv[1].sym.n}) = 3
                      /\ Cardinality(RandomSet(Slice(written, 0, BLen(env)))) = 3
                      /\ env # Slice(old, 0, BLen(env))
      ]_vars

\* C15 witness: a lock has written an envelope over a longer one, and the
\* file holds the three values of the new one and the three of the old one
C15_Witness ==
    /\ last.op = "lock_file"
    /\ last.ret = "Ok(true)"
    /\ Cardinality(RandomSet(disk[last.lock.file.filepath].bytes)) = 6

\* C16: unlock of an existing file shorter than the 160 bytes of salt,
\* secret and iv returns the error value MalformedEnvelope to the caller,
\* unless reading the file has failed with an I/O error; it returns no
\* Unlocked file and does not panic.
C16_ShortFileIsMalformedEnvelope ==
    [][(/\ last'.op = "unlock_file"
        /\ disk[last'.filepath].exists
        /\ BLen(disk[last'.filepath].bytes) < SALT_LEN + SECRET_LEN + IV_LEN) =>
          /\ ~last'.ret.ok
          /\ ~last'.ret.panic
          /\ last'.ret.error \in {"MalformedEnvelope", "Io"}
      ]_vars

\* C17: the bytes encrypt_slice produces are the 16 bytes of the salt, the
\* 128 of the secret, the 16 of the iv and the ciphertext, in that order and
\* nothing else, and decrypt_slice, which reads them from offsets 0, 16, 144
\* and 160, gets back the plaintext that was encrypted.
C17_EnvelopeLayout ==
    [][\A alias \in DOMAIN open_files :
          (last'.op = "lock_file" /\ last'.alias = alias /\ last'.lock.ok) =>
              \E password \in {open_files[alias].password},
                 data \in {Serialize(open_files[alias].file.data)},
                 rnd \in {Fresh(disk, open_files[alias].file.filepath)} :
                  LET ck == create_key(password, rnd, FALSE)
                      iv == random_bytes(IV_LEN, rnd[3])
                      encrypted == encrypt_vec(ck.key, iv, data)
                      env == encrypt_slice(password, data, rnd, FALSE).result
                  IN  /\ Slice(disk'[open_files[alias].file.filepath].bytes,
                               0, BLen(env)) = Canon(env)
                      /\ BLen(ck.salt) = 16
                      /\ BLen(ck.secret) = 128
                      /\ BLen(iv) = 16
                      /\ BLen(env) = 160 + BLen(encrypted)
                      /\ Slice(env, 0, 16) = ck.salt
                      /\ Slice(env, 16, 144) = ck.secret
                      /\ Slice(env, 144, 160) = iv
                      /\ Slice(env, 160, BLen(env)) = encrypted
                      /\ \A lucky \in BOOLEAN :
                            decrypt_slice(password, env, FALSE, lucky) =
                                [ok |-> TRUE, panic |-> FALSE, data |-> data]
      ]_vars

\* C17 witness: a lock has written the envelope of a mapping that is not
\* empty, and the file holds that envelope and nothing else
C17_Witness ==
    /\ last.op = "lock_file"
    /\ last.ret = "Ok(true)"
    /\ \E password \in Passwords, data \in CryptData \ {EmptyData} :
          IsEnvelopeOf(disk[last.lock.file.filepath].bytes, password, data)

\* C18: an exit command without --no-save locks every entry of the registry
\* before run returns the command; with --no-save no lock is attempted and
\* neither the registry nor the disk changes.
C18_ExitSavesUnlessNoSave ==
    [][(pc = "running" /\ pc' = "returned") =>
          IF ~last'.exit.no_save /\ DOMAIN open_files # {}
          THEN /\ last'.op = "lock_all_files"
               /\ Len(last'.locks) = Cardinality(DOMAIN open_files)
               /\ {last'.locks[i].alias : i \in DOMAIN last'.locks}
                      = DOMAIN open_files
          ELSE /\ last'.op = "exit"
               /\ open_files' = open_files
               /\ disk' = disk
      ]_vars

\* C18 witness: an exit without --no-save has attempted the lock of two
\* entries, and run has returned
C18_Witness ==
    /\ pc = "returned"
    /\ last.op = "lock_all_files"
    /\ ~last.exit.no_save
    /\ Len(last.locks) = 2

\* C19: when the lock_all_files of an exit command has left entries in the
\* registry, each of them is in the report given to the driver's error
\* output, and the process does not exit while they are held.
C19_FailedSaveStopsExit ==
    [][(/\ pc = "returned"
        /\ last.op = "lock_all_files"
        /\ last.ret = "Err") =>
          /\ DOMAIN open_files # {}
          /\ DOMAIN last.errors = DOMAIN open_files
          /\ pc' # "exited"
          /\ open_files' = open_files
      ]_vars

\* the commands after which tick returns None
NotExit == {"unlock_file", "lock_file", "set", "delete", "invalid"}

IsLocked(file) ==
    /\ DOMAIN file = {"filepath", "state"}
    /\ file.state = "Locked"

\* a CryptFile<UnlockedFile>: a path and a mapping
IsUnlocked(file) ==
    /\ DOMAIN file = {"filepath", "state", "data"}
    /\ file.state = "Unlocked"
    /\ file.data \in CryptData

\* C21: a CryptFile is either Locked, with no mapping, or Unlocked; a new
\* file is Locked; lock returns a Locked file when it succeeds and an
\* Unlocked one when it fails; every entry of the registry is Unlocked.
C21_Typestate ==
    /\ \A filepath \in Paths : IsLocked(new(filepath))
    /\ \A alias \in DOMAIN open_files : IsUnlocked(open_files[alias].file)
    /\ (last.op = "lock_file" /\ last.ret # "Ok(false)") =>
          IF last.lock.ok THEN IsLocked(last.lock.file)
          ELSE IsUnlocked(last.lock.file)
    /\ last.op = "lock_all_files" =>
          \A i \in DOMAIN last.locks :
              IF last.locks[i].ok THEN IsLocked(last.locks[i].file)
              ELSE IsUnlocked(last.locks[i].file)
    /\ (last.op = "unlock_file" /\ last.ret.ok) =>
          IsUnlocked(open_files[last.alias].file)

\* C21 witness: one entry has been locked while another, with a mapping
\* that is not empty, is open
C21_Witness ==
    /\ last.op = "lock_file"
    /\ last.ret = "Ok(true)"
    /\ IsLocked(last.lock.file)
    /\ \E alias \in DOMAIN open_files :
          open_files[alias].file.data # EmptyData

\* the last operation has opened the alias, for the first time or again
Opened(l, alias) ==
    l.op = "unlock_file" /\ l.alias = alias /\ l.ret.ok

\* C22: an entry has the password its alias was opened with; no command
\* changes the password of an entry that stays open; a file that lock_file
\* has written is read back, with the password of its entry, as the mapping
\* of that entry; and the bytes a lock of lock_all_files leaves in the file
\* are an envelope of the entry's mapping under the entry's password.
C22_PasswordIsRetained ==
    [][/\ \A alias \in DOMAIN open_files' :
            IF Opened(last', alias)
            THEN open_files'[alias].password = last'.password
            ELSE /\ alias \in DOMAIN open_files
                 /\ open_files'[alias].password = open_files[alias].password
       /\ \A alias \in DOMAIN open_files :
            (last'.op = "lock_file" /\ last'.alias = alias
                 /\ last'.lock.ok) =>
                \A lucky \in BOOLEAN :
                    unlock(new(open_files[alias].file.filepath),
                           open_files[alias].password, disk', "none", lucky)
                        = UnlockOk(open_files[alias].file.filepath,
                                   open_files[alias].file.data)
       /\ last'.op = "lock_all_files" =>
            \A i \in DOMAIN last'.locks :
                last'.locks[i].ok =>
                    IsEnvelopeOf(last'.locks[i].written,
                                 open_files[last'.locks[i].alias].password,
                                 open_files[last'.locks[i].alias].file.data)
      ]_vars

\* the key the ciphertext of an envelope was made under
KeyOf(bytes, len) ==
    LET encrypted == Slice(bytes, DATA_START, len) IN
    IF Len(encrypted) = 1 /\ encrypted[1].sym.t = "c"
    THEN encrypted[1].sym.key
    ELSE "none"

\* C23: the key create_key returns is the one recover_key derives from the
\* same password and the salt and secret create_key returns, and the
\* ciphertext a successful lock writes is made under the key that recover_key
\* derives from the password of the entry and the salt and secret the lock
\* has written at offsets 0 and 16 of the file.
C23_KeyMatchesEnvelope ==
    [][\A alias \in DOMAIN open_files :
          (last'.op = "lock_file" /\ last'.alias = alias /\ last'.lock.ok) =>
              \E password \in {open_files[alias].password},
                 written \in {disk'[open_files[alias].file.filepath].bytes},
                 ck \in {create_key(open_files[alias].password,
                             Fresh(disk, open_files[alias].file.filepath),
                             FALSE)} :
                  /\ ck.ok
                  /\ recover_key(password, ck.salt, ck.secret, FALSE) =
                         [ok |-> TRUE, key |-> ck.key]
                  /\ recover_key(password,
                                 Slice(written, SALT_START, SECRET_START),
                                 Slice(written, SECRET_START, IV_START),
                                 FALSE) =
                         [ok |-> TRUE,
                          key |-> KeyOf(written,
                                     EnvelopeLen(open_files[alias].file.data))]
      ]_vars

\* C23 witness: a lock has written a mapping that is not empty, and the
\* key of its ciphertext is derived from the salt and the secret in the file
C23_Witness ==
    /\ last.op = "lock_file"
    /\ last.ret = "Ok(true)"
    /\ \E data \in CryptData \ {EmptyData} :
          \E bytes \in {disk[last.lock.file.filepath].bytes} :
              /\ BLen(bytes) = EnvelopeLen(data)
              /\ KeyOf(bytes, BLen(bytes)) \in
                     {[password |-> password,
                       salt |-> Slice(bytes, SALT_START, SECRET_START),
                       secret |-> Slice(bytes, SECRET_START, IV_START)] :
                          password \in Passwords}

\* C24: parse_quoted_str applied to a quoted string whose content has every
\* quote escaped with a backslash, wherever the quotes are, followed by any
\* text, succeeds, leaves the text after the closing quote and returns the
\* content without the escaping backslashes; '' gives the empty string.
C24_QuotedStrParses ==
    last.op = "parse_quoted_str" =>
        \A content \in SeqsUpTo({"a", "'"}, MaxLen),
           rest \in {<<>>, <<"a">>} :
            last.input = Quoted(content) \o rest =>
                last.result = ParseOk(rest, content)

\* C25: parse_exit_command applied to the decimal digits of an exit code
\* gives that code with no_save false; applied to the digits, white space
\* and --no-save it gives that code with no_save true; and it consumes the
\* whole input.
C25_ExitCommandParses ==
    last.op = "parse_exit_command" =>
        \A code \in ExitCodes, z \in Zeros :
            /\ last.input = z \o Decimal(code) =>
                   last.result = ParseOk(<<>>, ReplExitCommand(code, FALSE))
            /\ \A w \in Spaces \ {<<>>} :
                   last.input = z \o Decimal(code) \o w \o NoSaveTag =>
                       last.result =
                           ParseOk(<<>>, ReplExitCommand(code, TRUE))

\* C25 witness: the exit command of `12 \t--no-save` has been parsed
C25_Witness ==
    /\ last.op = "parse_exit_command"
    /\ last.input = Decimal(MaxCode) \o <<" ", "\t">> \o NoSaveTag
    /\ last.result.ok
    /\ last.result.out.no_save

C27_UnlockLeavesDisk ==
    [][/\ last'.op = "unlock_file" => disk' = disk
       /\ \A filepath \in Paths :
            (~disk[filepath].exists /\ disk'[filepath].exists) =>
                last'.op \in {"lock_file", "lock_all_files"}
      ]_vars

\* C27 witness: a path without a file has been unlocked, and still has none
C27_Witness ==
    /\ last.op = "unlock_file"
    /\ last.ret.ok
    /\ last.alias \in DOMAIN open_files
    /\ ~disk[last.filepath].exists

\* the failures behind the locks of a lock_all_files call, where a lock
\* fails only at opening the file
FaultsOf(locks) ==
    [alias \in {locks[i].alias : i \in DOMAIN locks} |->
        LET i == CHOOSE j \in DOMAIN locks : locks[j].alias = alias
        IN  IF locks[i].ok THEN NoFault ELSE [kind |-> "open", n |-> 0]]

\* C28: whatever the order in which lock_all_files takes the entries, with
\* the same locks failing, it leaves the same registry, returns the same
\* error report and leaves the same bytes in every file, two aliases of one
\* path included.
C28_CloseAllOrderIndependent ==
    [][last'.op = "lock_all_files" =>
          \A order \in Orders(DOMAIN open_files) :
              \E r \in {lock_all_files(open_files, disk, order,
                                       FaultsOf(last'.locks))} :
                  /\ r.open_files = open_files'
                  /\ r.errors = last'.errors
                  /\ r.disk = disk'
      ]_vars

\* the file at the path of the entry is read back, with the password of the
\* entry, as the mapping of the entry
ReadBackAs(d, entry) ==
    \A lucky \in BOOLEAN :
        unlock(new(entry.file.filepath), entry.password, d, "none", lucky)
            = UnlockOk(entry.file.filepath, entry.file.data)

\* C29: when two aliases are open on one path with the same password and
\* are locked with success one after the other, by two lock commands or by
\* lock_all_files, the file is afterwards unlocked by that password as the
\* mapping of the alias locked last.
C29_LastLockWins ==
    [][/\ \A alias \in DOMAIN open_files :
            (/\ last.op = "lock_file"
             /\ last.ret = "Ok(true)"
             /\ last'.op = "lock_file"
             /\ last'.alias = alias
             /\ last'.ret = "Ok(true)"
             /\ last.lock.file.filepath = open_files[alias].file.filepath) =>
                ReadBackAs(disk', open_files[alias])
       /\ (/\ last'.op = "lock_all_files"
           /\ last'.ret = "Ok"
           /\ Len(last'.order) = 2
           /\ \A x, y \in DOMAIN open_files :
                 /\ open_files[x].file.filepath = open_files[y].file.filepath
                 /\ open_files[x].password = open_files[y].password) =>
              ReadBackAs(disk', open_files[last'.order[2]])
      ]_vars

\* C30: when prompt_password fails in an unlock command, the step is the
\* return of that error: no unlock has been made, the registry and the disk
\* are as they were, and the command loop has stopped with the error, so
\* that no step follows.
C30_PasswordPromptErrorStops ==
    [][/\ pc # "error"
       /\ last'.op = "prompt_password" =>
            /\ pc = "running"
            /\ pc' = "error"
            /\ open_files' = open_files
            /\ disk' = disk
      ]_vars

\* C30 witness: the loop has stopped with the error of prompt_password
\* while a file with an entry is open and another is on the disk
C30_Witness ==
    /\ last.op = "prompt_password"
    /\ pc = "error"
    /\ \E alias \in DOMAIN open_files : open_files[alias].file.data # EmptyData
    /\ \E filepath \in Paths : disk[filepath].exists

\* C31: a line that ReplCommand::try_from rejects is reported with eprint
\* and that is all: tick returns None, so that the loop goes on to the next
\* line, and the registry and the disk are as they were.
C31_InvalidLineHasNoEffect ==
    [][last'.op = "invalid" =>
          /\ ~try_from(last'.line).ok
          /\ last'.eprint = "Invalid command"
          /\ pc = "running"
          /\ pc' = "running"
          /\ open_files' = open_files
          /\ disk' = disk
      ]_vars

\* C31 witness: the line `exit -1` has been rejected while a file with an
\* entry is open, and the loop is running
C31_Witness ==
    /\ last.op = "invalid"
    /\ last.line = Word.exit \o <<" ", "-", "1">>
    /\ pc = "running"
    /\ \E alias \in DOMAIN open_files : open_files[alias].file.data # EmptyData

\* the values of CryptFileError, which the arms of execute_command hand to
\* driver.eprint
CryptFileError == {"Encrypt", "Io", "Bincode"}

\* C32: a lock or an unlock that fails inside an unlock, lock or exit
\* command does not stop the loop: the failure is an error value, which is
\* reported, execute_command returns, and the registry is the one the failed
\* operation has left: unchanged after an unlock or a lock command, the
\* entries that were not locked after an exit command.
C32_FailedFileOperationIsReported ==
    [][/\ (last'.op = "unlock_file" /\ ~last'.ret.ok) =>
            /\ ~last'.ret.panic
            /\ last'.ret.error \in CryptFileError
            /\ pc' = "running"
            /\ open_files' = open_files
       /\ (last'.op = "lock_file" /\ last'.ret = "Err") =>
            /\ last'.error \in CryptFileError
            /\ pc' = "running"
            /\ open_files' = open_files
       /\ (last'.op = "lock_all_files" /\ last'.ret = "Err") =>
            /\ \A alias \in DOMAIN last'.errors :
                  last'.errors[alias] \in CryptFileError
            /\ pc' = "returned"
            /\ DOMAIN open_files' = DOMAIN last'.errors
            /\ \A alias \in DOMAIN open_files' :
                  open_files'[alias] = open_files[alias]
      ]_vars
====
